---- MODULE Spec2Model ----
(***************************************************************************)
(* The signal router of the consciousness observer (SignalHandlers.route   *)
(* and its family handlers) together with the two collaborators it writes  *)
(* to: the backing store (attention events, operations) and the sinks      *)
(* (emit, sendResponse).                                                   *)
(*                                                                         *)
(* A handler is a straight-line sequence of collaborator calls whose       *)
(* arguments depend only on the signal, the sender's address and the       *)
(* clock; no handler reads a call's result.  Each handler is therefore     *)
(* written as the sequence of calls it makes, in program order, each call  *)
(* marked with whether it sits inside a try/catch.  Run executes such a    *)
(* sequence against the store: a call that throws outside a try/catch      *)
(* ends the invocation (the promise returned by route is rejected).        *)
(*                                                                         *)
(* Numbers with a fractional part (quality_score, confidence) are kept in  *)
(* thousandths: 0.9 is 900, 1.0 is 1000.                                   *)
(***************************************************************************)
EXTENDS Integers, Sequences, FiniteSets, TLC

VARIABLES
  attentionEvents,  \* the store's attention-event table, in insertion order
  operations,       \* the store's operation table, in insertion order
  now,              \* the clock read by Date.now(), in milliseconds
  routed,           \* number of route invocations so far
  rejected,         \* TRUE once the store has rejected an attention-event write
  lastCall          \* << >> before the first route call, then <<c>>: the last
                    \* invocation's signal, sender address, the calls it made
                    \* on its collaborators in order, and whether it threw

VARIABLES
  rateLimitStore,   \* the limiter's Map: client ip -> [count, resetTime]
  uncleanedStore,   \* the Map as it would be had the cleanup timer never
                    \* fired: written by the same requests, never cleaned
  admitted,         \* per client and limiter, the requests handed to next()
                    \* since the client's current window was opened
  cleanups,         \* firings of the cleanup timer that dropped an entry
  served,           \* HTTP requests handled so far
  lastResponse      \* << >> before the first HTTP request, then <<r>>: the
                    \* last request, the middleware that handled it and
                    \* what it did to res and next

routerVars == <<attentionEvents, operations, routed, rejected, lastCall>>

httpVars ==
  <<rateLimitStore, uncleanedStore, admitted, cleanups, served, lastResponse>>

vars == <<attentionEvents, operations, now, routed, rejected, lastCall,
          rateLimitStore, uncleanedStore, admitted, cleanups, served,
          lastResponse>>

-----------------------------------------------------------------------------
(* Bounds *)

MaxRoutes == 2      \* route invocations in one behaviour
MaxTicks == 1       \* clock advances in one behaviour
MaxRequests == 5    \* requests reaching a limiter in one behaviour
MaxErrors == 2      \* errors reaching the error handler in one behaviour
MaxElapse == 4      \* clock advances on the HTTP side in one behaviour
MaxCleanups == 1    \* cleanup firings: the timer's period is a minute

(* Clock: Date.now() starts at StartTime and advances by TickMs *)
StartTime == 1000
TickMs == 1500

(* Fixed-point unit for fractional numbers: 1.0 *)
One == 1000

-----------------------------------------------------------------------------
(* protocol.js: signal type codes and their names *)

SignalTypes ==
  [ HEARTBEAT |-> 1, DOCK_REQUEST |-> 2, DOCK_APPROVED |-> 3, UNDOCK |-> 4,
    SHUTDOWN |-> 5, FILE_DISCOVERED |-> 6, FILE_INDEXED |-> 7,
    FILE_MODIFIED |-> 8, FILE_DELETED |-> 9, SEARCH_STARTED |-> 10,
    SEARCH_COMPLETED |-> 11, SEARCH_RESULT |-> 12, BUILD_STARTED |-> 13,
    BUILD_COMPLETED |-> 14, BUILD_FAILED |-> 15, VERIFICATION_STARTED |-> 16,
    VERIFICATION_RESULT |-> 17, CLAIM_EXTRACTED |-> 18,
    VALIDATION_APPROVED |-> 19, VALIDATION_REJECTED |-> 20,
    HANDOFF_REQUEST |-> 21, HANDOFF_APPROVED |-> 22, HANDOFF_COMPLETED |-> 23,
    MODE_SWITCH |-> 24, ASTROSENTRY_EVENT |-> 25, ERROR |-> 26 ]

(* A numeric type outside the enumeration (0x9999) *)
UnrecognizedType == 39321

getSignalName(t) ==
  IF \E n \in DOMAIN SignalTypes : SignalTypes[n] = t
  THEN CHOOSE n \in DOMAIN SignalTypes : SignalTypes[n] = t
  ELSE "UNKNOWN"

-----------------------------------------------------------------------------
(* JavaScript value helpers *)

(* const { sender, ...data } = signal.payload *)
Rest(payload) == [f \in (DOMAIN payload) \ {"sender"} |-> payload[f]]

(* (d.f || dflt) for a string-valued field: absent and "" are falsy *)
StrOr(d, f, dflt) == IF f \in DOMAIN d /\ d[f] # "" THEN d[f] ELSE dflt

(* (d.f || dflt) for a number-valued field: absent and 0 are falsy *)
NumOr(d, f, dflt) == IF f \in DOMAIN d /\ d[f] # 0 THEN d[f] ELSE dflt

(* d.f copied as is: << >> stands for undefined *)
Opt(d, f) == IF f \in DOMAIN d THEN <<d[f]>> ELSE << >>

(* `${d.f}` inside a template string *)
Interp(d, f) == IF f \in DOMAIN d THEN d[f] ELSE "undefined"

(* signal.timestamp * 1000 || Date.now() *)
eventTimestamp(signal, clock) ==
  IF signal.timestamp * 1000 # 0 THEN signal.timestamp * 1000 ELSE clock

Min(a, b) == IF a < b THEN a ELSE b

-----------------------------------------------------------------------------
(* Collaborator calls, as a handler issues them *)

CallInsertAttentionEvent(event, caught) ==
  [call |-> "insertAttentionEvent", arg |-> event, caught |-> caught]

CallInsertOperation(op, caught) ==
  [call |-> "insertOperation", arg |-> op, caught |-> caught]

CallEmit(name, data) ==
  [call |-> "emit", event |-> name, arg |-> data]

CallSendResponse(host, port, response) ==
  [call |-> "sendResponse", host |-> host, port |-> port, arg |-> response]

-----------------------------------------------------------------------------
(* The backing store.  Each insert returns the new table and the error it  *)
(* raised ("none" when the row was written).                               *)

insertAttentionEvent(table, event, fault) ==
  IF fault
  THEN [table |-> table, error |-> "StorageError"]
  ELSE [table |-> Append(table, event), error |-> "none"]

insertOperation(table, op, fault) ==
  IF fault
  THEN [table |-> table, error |-> "StorageError"]
  ELSE IF \E i \in 1..Len(table) : table[i].operation_id = op.operation_id
       THEN [table |-> table, error |-> "DuplicateKeyError"]
       ELSE [table |-> Append(table, op), error |-> "none"]

-----------------------------------------------------------------------------
(* Execution of a handler's calls.  faults.ae is the set of positions      *)
(* (1st, 2nd call of this invocation) at which the store rejects            *)
(* insertAttentionEvent; faults.op says whether it rejects insertOperation *)
(* with a storage error.  A duplicate operation_id is rejected by the      *)
(* store itself.                                                           *)

(* Step with the Operation written over the row of the same operation_id *)
Step_overwrite(c, st, faults) ==
  IF c.call = "insertAttentionEvent" THEN
    LET k == st.aeCalls + 1
        r == insertAttentionEvent(st.attentionEvents, c.arg, k \in faults.ae)
    IN [st EXCEPT !.attentionEvents = r.table,
                  !.aeCalls = k,
                  !.effects = Append(@, [call |-> c.call, arg |-> c.arg,
                                         error |-> r.error]),
                  !.raised = (r.error # "none" /\ ~c.caught)]
  ELSE IF c.call = "insertOperation" THEN
    LET kept == SelectSeq(st.operations,
                  LAMBDA o : o.operation_id # c.arg.operation_id)
        r == insertOperation(kept, c.arg, faults.op)
    IN [st EXCEPT !.operations = IF faults.op THEN @ ELSE r.table,
                  !.effects = Append(@, [call |-> c.call, arg |-> c.arg,
                                         error |-> r.error]),
                  !.raised = (r.error # "none" /\ ~c.caught)]
  ELSE [st EXCEPT !.effects = Append(@, c)]

Step(c, st, faults) ==
  IF c.call = "insertAttentionEvent" THEN
    LET k == st.aeCalls + 1
        r == insertAttentionEvent(st.attentionEvents, c.arg, k \in faults.ae)
    IN [st EXCEPT !.attentionEvents = r.table,
                  !.aeCalls = k,
                  !.effects = Append(@, [call |-> c.call, arg |-> c.arg,
                                         error |-> r.error]),
                  !.raised = (r.error # "none" /\ ~c.caught)]
  ELSE IF c.call = "insertOperation" THEN
    LET r == insertOperation(st.operations, c.arg, faults.op)
    IN [st EXCEPT !.operations = r.table,
                  !.effects = Append(@, [call |-> c.call, arg |-> c.arg,
                                         error |-> r.error]),
                  !.raised = (r.error # "none" /\ ~c.caught)]
  ELSE [st EXCEPT !.effects = Append(@, c)]

RECURSIVE Run(_, _, _)
Run(calls, st, faults) ==
  IF calls = << >> \/ st.raised
  THEN st
  ELSE Run(Tail(calls), Step(Head(calls), st, faults), faults)

-----------------------------------------------------------------------------
(* SignalHandlers *)

(* constructor default *)
serverId == "consciousness-mcp"

logAttentionEvent(signal, rinfo, clock) ==
  << CallInsertAttentionEvent(
       [ timestamp |-> eventTimestamp(signal, clock),
         server_name |-> signal.payload.sender,
         event_type |-> "signal",
         target |-> getSignalName(signal.signalType),
         context |-> [ signal_type |-> signal.signalType,
                       data |-> Rest(signal.payload),
                       source_address |-> rinfo.address,
                       source_port |-> rinfo.port ] ],
       TRUE) >>

handleHeartbeat(signal, rinfo, clock) ==
  << CallEmit("server_heartbeat",
       [ server |-> signal.payload.sender,
         timestamp |-> signal.timestamp,
         data |-> Rest(signal.payload) ]) >>

(* The reply to a dock request *)
dockApproved(clock, approved) ==
  [ signalType |-> SignalTypes.DOCK_APPROVED,
    version |-> 256,
    timestamp |-> clock \div 1000,
    payload |-> [ sender |-> serverId,
                  approved |-> approved,
                  message |-> "Welcome to the consciousness mesh",
                  capabilities |->
                    <<"awareness", "pattern-detection", "reflection">> ] ]

(* handleDockRequest approving only the peer it already knows *)
handleDockRequest_knownPeer(signal, rinfo, clock) ==
  << CallSendResponse(rinfo.address, rinfo.port,
       dockApproved(clock, signal.payload.sender = "neurogenesis")) >>

handleDockRequest(signal, rinfo, clock) ==
  << CallSendResponse(rinfo.address, rinfo.port, dockApproved(clock, TRUE)) >>

handleShutdown(signal, rinfo, clock) ==
  << CallEmit("server_shutdown",
       [ server |-> signal.payload.sender,
         timestamp |-> signal.timestamp ]) >>

handleFileEvent(signal, rinfo, clock) ==
  LET sender == signal.payload.sender
      data == Rest(signal.payload)
  IN << CallInsertAttentionEvent(
          [ timestamp |-> eventTimestamp(signal, clock),
            server_name |-> sender,
            event_type |-> "file",
            target |-> StrOr(data, "path", StrOr(data, "file", "unknown")),
            context |-> data ],
          FALSE),
        CallEmit("file_event",
          [ type |-> getSignalName(signal.signalType),
            server |-> sender,
            data |-> data ]) >>

(* The Operation a search-completed signal is summarised as *)
searchOperation(signal, clock) ==
  LET data == Rest(signal.payload)
  IN [ timestamp |-> eventTimestamp(signal, clock),
       server_name |-> signal.payload.sender,
       operation_type |-> "search",
       operation_id |-> StrOr(data, "search_id", "search-" \o ToString(clock)),
       input_summary |-> StrOr(data, "query", "unknown"),
       outcome |-> IF "results_count" \in DOMAIN data /\ data.results_count > 0
                   THEN "success" ELSE "partial",
       quality_score |->
         Min(One, (NumOr(data, "results_count", 0) * One) \div 10),
       lessons |-> [results_count |-> Opt(data, "results_count")],
       duration_ms |-> Opt(data, "duration_ms") ]

searchStarted(signal, clock) ==
  LET data == Rest(signal.payload)
  IN IF signal.signalType = SignalTypes.SEARCH_STARTED
     THEN << CallInsertAttentionEvent(
               [ timestamp |-> eventTimestamp(signal, clock),
                 server_name |-> signal.payload.sender,
                 event_type |-> "query",
                 target |-> StrOr(data, "query",
                              StrOr(data, "search_term", "unknown")),
                 context |-> data ],
               FALSE) >>
     ELSE << >>

searchNotice(signal) ==
  << CallEmit("search_event",
       [ type |-> getSignalName(signal.signalType),
         server |-> signal.payload.sender,
         data |-> Rest(signal.payload) ]) >>

(* handleSearchEvent with the insert outside its try/catch *)
handleSearchEvent_unwrapped(signal, rinfo, clock) ==
  searchStarted(signal, clock)
  \o (IF signal.signalType = SignalTypes.SEARCH_COMPLETED
      THEN << CallInsertOperation(searchOperation(signal, clock), FALSE) >>
      ELSE << >>)
  \o searchNotice(signal)

(* handleSearchEvent summarising search-result signals as well *)
handleSearchEvent_everyResult(signal, rinfo, clock) ==
  searchStarted(signal, clock)
  \o (IF signal.signalType \in {SignalTypes.SEARCH_COMPLETED,
                                SignalTypes.SEARCH_RESULT}
      THEN << CallInsertOperation(searchOperation(signal, clock), TRUE) >>
      ELSE << >>)
  \o searchNotice(signal)

handleSearchEvent(signal, rinfo, clock) ==
  searchStarted(signal, clock)
  \o (IF signal.signalType = SignalTypes.SEARCH_COMPLETED
      THEN << CallInsertOperation(searchOperation(signal, clock), TRUE) >>
      ELSE << >>)
  \o searchNotice(signal)

(* buildId synthesized from the clock whatever the payload carries *)
buildId_synthesized(signal, clock) == "build-" \o ToString(clock)

(* data.build_id || data.server_name || `build-${Date.now()}` *)
buildId(signal, clock) ==
  LET data == Rest(signal.payload)
  IN StrOr(data, "build_id",
       StrOr(data, "server_name", "build-" \o ToString(clock)))

buildOutcome(signal) ==
  IF signal.signalType = SignalTypes.BUILD_COMPLETED
  THEN "success" ELSE "failure"

(* The Operation a build-completed or build-failed signal is summarised as *)
buildOperation(signal, clock) ==
  LET data == Rest(signal.payload)
  IN [ timestamp |-> eventTimestamp(signal, clock),
       server_name |-> signal.payload.sender,
       operation_type |-> "build",
       operation_id |-> buildId(signal, clock),
       input_summary |-> StrOr(data, "server_name",
                           StrOr(data, "description", "unknown")),
       outcome |-> buildOutcome(signal),
       quality_score |-> IF buildOutcome(signal) = "success"
                         THEN (9 * One) \div 10
                         ELSE (2 * One) \div 10,
       lessons |-> data,
       duration_ms |-> Opt(data, "duration_ms") ]

handleBuildEvent(signal, rinfo, clock) ==
  LET sender == signal.payload.sender
      data == Rest(signal.payload)
      started ==
        IF signal.signalType = SignalTypes.BUILD_STARTED
        THEN << CallInsertAttentionEvent(
                  [ timestamp |-> eventTimestamp(signal, clock),
                    server_name |-> sender,
                    event_type |-> "operation",
                    target |-> buildId(signal, clock),
                    context |-> [operation |-> "build_started", data |-> data] ],
                  FALSE) >>
        ELSE << >>
      finished ==
        IF signal.signalType = SignalTypes.BUILD_COMPLETED
           \/ signal.signalType = SignalTypes.BUILD_FAILED
        THEN << CallInsertOperation(buildOperation(signal, clock), TRUE) >>
             \o (IF buildOutcome(signal) = "failure"
                 THEN << CallEmit("lesson_learned",
                           [ type |-> "build_failure",
                             server |-> sender,
                             data |-> data ]) >>
                 ELSE << >>)
        ELSE << >>
  IN started \o finished \o
     << CallEmit("build_event",
          [ type |-> getSignalName(signal.signalType),
            server |-> sender,
            data |-> data ]) >>

(* The Operation a verification-result signal is summarised as *)
verifyOperation(signal, clock) ==
  LET data == Rest(signal.payload)
      verdict == Opt(data, "verdict")
  IN [ timestamp |-> eventTimestamp(signal, clock),
       server_name |-> signal.payload.sender,
       operation_type |-> "verify",
       operation_id |-> StrOr(data, "verification_id",
                          "verify-" \o ToString(clock)),
       input_summary |-> StrOr(data, "claim", "unknown"),
       outcome |-> IF verdict = <<"SUPPORTED">> THEN "success"
                   ELSE IF verdict = <<"CONTRADICTED">> THEN "failure"
                   ELSE "partial",
       quality_score |-> NumOr(data, "confidence", One \div 2),
       lessons |-> [ verdict |-> verdict,
                     constraints |-> Opt(data, "constraints"),
                     sources |-> Opt(data, "sources") ],
       duration_ms |-> Opt(data, "duration_ms") ]

(* handleVerificationEvent with the insert outside its try/catch *)
handleVerificationEvent_unwrapped(signal, rinfo, clock) ==
  (IF signal.signalType = SignalTypes.VERIFICATION_RESULT
   THEN << CallInsertOperation(verifyOperation(signal, clock), FALSE) >>
   ELSE << >>)
  \o << CallEmit("verification_event",
          [ type |-> getSignalName(signal.signalType),
            server |-> signal.payload.sender,
            data |-> Rest(signal.payload) ]) >>

handleVerificationEvent(signal, rinfo, clock) ==
  (IF signal.signalType = SignalTypes.VERIFICATION_RESULT
   THEN << CallInsertOperation(verifyOperation(signal, clock), TRUE) >>
   ELSE << >>)
  \o << CallEmit("verification_event",
          [ type |-> getSignalName(signal.signalType),
            server |-> signal.payload.sender,
            data |-> Rest(signal.payload) ]) >>

handleValidationEvent(signal, rinfo, clock) ==
  LET sender == signal.payload.sender
      data == Rest(signal.payload)
      outcome == IF signal.signalType = SignalTypes.VALIDATION_APPROVED
                 THEN "success" ELSE "failure"
  IN << CallEmit("validation_event",
          [ type |-> getSignalName(signal.signalType),
            outcome |-> outcome,
            server |-> sender,
            data |-> data ]) >>
     \o (IF outcome = "failure"
         THEN << CallEmit("pattern_candidate",
                   [ type |-> "validation_failure",
                     server |-> sender,
                     reason |-> Opt(data, "reason"),
                     data |-> data ]) >>
         ELSE << >>)

handleCoordinationEvent(signal, rinfo, clock) ==
  LET sender == signal.payload.sender
      data == Rest(signal.payload)
  IN << CallInsertAttentionEvent(
          [ timestamp |-> eventTimestamp(signal, clock),
            server_name |-> sender,
            event_type |-> "workflow",
            target |-> getSignalName(signal.signalType),
            context |-> data ],
          FALSE),
        CallEmit("coordination_event",
          [ type |-> getSignalName(signal.signalType),
            server |-> sender,
            data |-> data ]) >>

(* The Operation an astrosentry-event with an outcome is summarised as *)
astrosentryOperation(signal, clock) ==
  LET p == signal.payload
      outcome == Opt(p, "outcome")
  IN [ timestamp |-> eventTimestamp(signal, clock),
       server_name |-> StrOr(p, "serverId", p.sender),
       operation_type |-> Interp(p, "eventType"),
       operation_id |-> Interp(p, "serverId") \o "-"
                        \o Interp(p, "eventType") \o "-" \o ToString(clock),
       input_summary |-> Interp(p, "operation"),
       outcome |-> IF outcome = <<"success">> THEN "success"
                   ELSE IF outcome = <<"failure">> THEN "failure"
                   ELSE "partial",
       quality_score |-> IF outcome = <<"success">> THEN One
                         ELSE IF outcome = <<"failure">> THEN 0
                         ELSE One \div 2,
       lessons |-> Opt(p, "metadata"),
       duration_ms |-> << >> ]

handleAstrosentryEvent(signal, rinfo, clock) ==
  LET p == signal.payload
      outcome == Opt(p, "outcome")
  IN << CallInsertAttentionEvent(
          [ timestamp |-> eventTimestamp(signal, clock),
            server_name |-> StrOr(p, "serverId", p.sender),
            event_type |-> "operation",
            target |-> Interp(p, "eventType") \o ":" \o Interp(p, "operation"),
            context |-> [ astrosentry_event_type |-> Opt(p, "eventType"),
                          outcome |-> outcome,
                          source |-> Opt(p, "source"),
                          metadata |-> Opt(p, "metadata") ] ],
          FALSE) >>
     \o (IF outcome # << >> /\ outcome # <<"">>
         THEN << CallInsertOperation(astrosentryOperation(signal, clock), TRUE) >>
         ELSE << >>)
     \o << CallEmit("astrosentry_event",
             [ serverId |-> Opt(p, "serverId"),
               eventType |-> Opt(p, "eventType"),
               outcome |-> outcome,
               operation |-> Opt(p, "operation"),
               metadata |-> Opt(p, "metadata"),
               source |-> Opt(p, "source") ]) >>
     \o (IF outcome = <<"failure">>
         THEN << CallEmit("pattern_candidate",
                   [ type |-> "astrosentry_failure",
                     server |-> Opt(p, "serverId"),
                     eventType |-> Opt(p, "eventType"),
                     operation |-> Opt(p, "operation"),
                     metadata |-> Opt(p, "metadata") ]) >>
         ELSE << >>)

(* handleError announcing the error under the name of the generic event *)
handleError_asEvent(signal, rinfo, clock) ==
  LET sender == signal.payload.sender
      data == Rest(signal.payload)
  IN << CallEmit("error_event",
          [ server |-> sender,
            error |-> data,
            timestamp |-> signal.timestamp ]),
        CallEmit("pattern_candidate",
          [ type |-> "error",
            server |-> sender,
            data |-> data ]) >>

handleError(signal, rinfo, clock) ==
  LET sender == signal.payload.sender
      data == Rest(signal.payload)
  IN << CallEmit("error_received",
          [ server |-> sender,
            error |-> data,
            timestamp |-> signal.timestamp ]),
        CallEmit("pattern_candidate",
          [ type |-> "error",
            server |-> sender,
            data |-> data ]) >>

(* handleUnknownSignal reporting the type cut to the low byte of the header *)
handleUnknownSignal_truncated(signal, rinfo, clock) ==
  << CallEmit("unknown_signal",
       [ type |-> signal.signalType % 256,
         server |-> signal.payload.sender,
         data |-> Rest(signal.payload) ]) >>

handleUnknownSignal(signal, rinfo, clock) ==
  << CallEmit("unknown_signal",
       [ type |-> signal.signalType,
         server |-> signal.payload.sender,
         data |-> Rest(signal.payload) ]) >>

(* The switch of route: the family handler of a signal type *)
dispatch(signal, rinfo, clock) ==
  LET t == signal.signalType
      T == SignalTypes
  IN CASE t = T.HEARTBEAT -> handleHeartbeat(signal, rinfo, clock)
       [] t = T.DOCK_REQUEST -> handleDockRequest(signal, rinfo, clock)
       [] t \in {T.UNDOCK, T.SHUTDOWN} -> handleShutdown(signal, rinfo, clock)
       [] t \in {T.FILE_DISCOVERED, T.FILE_INDEXED, T.FILE_MODIFIED,
                 T.FILE_DELETED} -> handleFileEvent(signal, rinfo, clock)
       [] t \in {T.SEARCH_STARTED, T.SEARCH_COMPLETED, T.SEARCH_RESULT}
            -> handleSearchEvent(signal, rinfo, clock)
       [] t \in {T.BUILD_STARTED, T.BUILD_COMPLETED, T.BUILD_FAILED}
            -> handleBuildEvent(signal, rinfo, clock)
       [] t \in {T.VERIFICATION_STARTED, T.VERIFICATION_RESULT,
                 T.CLAIM_EXTRACTED}
            -> handleVerificationEvent(signal, rinfo, clock)
       [] t \in {T.VALIDATION_APPROVED, T.VALIDATION_REJECTED}
            -> handleValidationEvent(signal, rinfo, clock)
       [] t \in {T.HANDOFF_REQUEST, T.HANDOFF_APPROVED, T.HANDOFF_COMPLETED,
                 T.MODE_SWITCH}
            -> handleCoordinationEvent(signal, rinfo, clock)
       [] t = T.ASTROSENTRY_EVENT -> handleAstrosentryEvent(signal, rinfo, clock)
       [] t = T.ERROR -> handleError(signal, rinfo, clock)
       [] OTHER -> handleUnknownSignal(signal, rinfo, clock)

(* route logging the signal after its handler has run *)
route_logLast(signal, rinfo, clock) ==
  dispatch(signal, rinfo, clock) \o logAttentionEvent(signal, rinfo, clock)

(* route logging only the signals it has a case for *)
route_logRecognized(signal, rinfo, clock) ==
  (IF \E n \in DOMAIN SignalTypes : SignalTypes[n] = signal.signalType
   THEN logAttentionEvent(signal, rinfo, clock)
   ELSE << >>)
  \o dispatch(signal, rinfo, clock)

(* route with the build handler's insert outside its try/catch *)
route_unwrappedBuild(signal, rinfo, clock) ==
  LET calls == logAttentionEvent(signal, rinfo, clock)
               \o dispatch(signal, rinfo, clock)
  IN [ i \in 1..Len(calls) |->
         IF calls[i].call = "insertOperation"
            /\ calls[i].arg.operation_type = "build"
         THEN [calls[i] EXCEPT !.caught = FALSE]
         ELSE calls[i] ]

(* route: the calls one invocation makes, in order *)
route(signal, rinfo, clock) ==
  logAttentionEvent(signal, rinfo, clock) \o dispatch(signal, rinfo, clock)

-----------------------------------------------------------------------------
(* Inbound datagrams the transport may deliver *)

Senders == {"neurogenesis", "verifier"}

Rinfos == { [address |-> "10.0.0.5", port |-> 3005],
            [address |-> "10.0.0.9", port |-> 3009] }

(* signal.timestamp in seconds; 0 stands for a missing timestamp *)
Timestamps == {0, 7}

ResultsCounts == {-3, 0, 5, 25}

(* confidence in thousandths: 0, 0.8, 1.5 *)
Confidences == {0, 800, 1500}

Verdicts == {"SUPPORTED", "CONTRADICTED", "UNVERIFIABLE"}

Outcomes == {"", "success", "failure", "timeout"}

Empty == [f \in {} |-> 0]

Merge(a, b) ==
  [f \in (DOMAIN a) \cup (DOMAIN b) |-> IF f \in DOMAIN b THEN b[f] ELSE a[f]]

Field(f, values) == {Empty} \cup {[g \in {f} |-> v] : v \in values}

(* The payload fields, besides sender, that a signal of type t may carry *)
FieldsOf(t) ==
  LET T == SignalTypes
  IN CASE t \in {T.FILE_DISCOVERED, T.FILE_INDEXED, T.FILE_MODIFIED,
                 T.FILE_DELETED}
            -> Field("path", {"/src/a.ts"})
       [] t = T.SEARCH_STARTED -> Field("query", {"tla"})
       [] t = T.SEARCH_COMPLETED
            -> {Merge(a, b) : a \in Field("search_id", {"s1"}),
                              b \in Field("results_count", ResultsCounts)}
       [] t \in {T.BUILD_STARTED, T.BUILD_COMPLETED, T.BUILD_FAILED}
            -> Field("build_id", {"b1"}) \cup Field("server_name", {"toolee"})
       [] t = T.VERIFICATION_RESULT
            -> {Merge([verification_id |-> "v1"], Merge(a, b)) :
                  a \in Field("verdict", Verdicts),
                  b \in Field("confidence", Confidences)}
               \cup {[verdict |-> "SUPPORTED", confidence |-> 800]}
       [] t = T.VALIDATION_REJECTED -> Field("reason", {"schema"})
       [] t = T.ASTROSENTRY_EVENT
            -> {Merge([serverId |-> "context-guardian",
                       eventType |-> "validation",
                       operation |-> "validate",
                       source |-> "http"], a) : a \in Field("outcome", Outcomes)}
       [] OTHER -> {Empty}

(* Types delivered from every sender, address and timestamp; the other     *)
(* types are delivered from one sender at one timestamp                    *)
VariedTypes == {SignalTypes.HEARTBEAT, SignalTypes.DOCK_REQUEST}

AllTypes == {SignalTypes[n] : n \in DOMAIN SignalTypes} \cup {UnrecognizedType}

Datagrams ==
  UNION { { [ signal |-> [ signalType |-> t,
                           version |-> 256,
                           timestamp |-> ts,
                           payload |-> Merge([sender |-> s], d) ],
              rinfo |-> ri ] :
            d \in FieldsOf(t),
            s \in IF t \in VariedTypes THEN Senders ELSE {"neurogenesis"},
            ts \in IF t \in VariedTypes THEN Timestamps ELSE {7},
            ri \in IF t \in VariedTypes THEN Rinfos
                   ELSE {[address |-> "10.0.0.5", port |-> 3005]} } :
          t \in AllTypes }

(* What the store may reject during one invocation *)
Faults == [ae : SUBSET {1, 2}, op : BOOLEAN]

-----------------------------------------------------------------------------
(* HTTP middleware: the rate limiter                                       *)
(*                                                                         *)
(* A path is the sequence of its segments, each with its leading slash,    *)
(* so that startsWith is the prefix order on sequences.                    *)

DEFAULT_OPTIONS ==
  [ windowMs |-> 60 * 1000,
    maxRequests |-> 100,
    skipPaths |-> { <<"/health">>,
                    <<"/health", "/ready">>,
                    <<"/health", "/detailed">> } ]

(* Math.ceil(a / b) for b > 0 *)
Ceil(a, b) == -((-a) \div b)

Max(a, b) == IF a > b THEN a ELSE b

startsWith(path, prefix) ==
  /\ Len(prefix) <= Len(path)
  /\ SubSeq(path, 1, Len(prefix)) = prefix

(* opts.skipPaths.some(path => req.path === path || req.path.startsWith(path)) *)
skipped(opts, req) ==
  \E path \in opts.skipPaths : req.path = path \/ startsWith(req.path, path)

(* req.ip || req.socket.remoteAddress || 'unknown' *)
clientIp(req) == StrOr(req, "ip", StrOr(req, "remoteAddress", "unknown"))

(* windowEntry opening a new window from the instant resetTime on *)
windowEntry_inclusive(opts, store, ip, clock) ==
  IF ip \notin DOMAIN store \/ clock >= store[ip].resetTime
  THEN [count |-> 0, resetTime |-> clock + opts.windowMs]
  ELSE store[ip]

(* windowEntry opening a window of its own over an entry whose window      *)
(* runs longer than the limiter's windowMs                                 *)
windowEntry_ownWindow(opts, store, ip, clock) ==
  IF \/ ip \notin DOMAIN store
     \/ clock > store[ip].resetTime
     \/ store[ip].resetTime > clock + opts.windowMs
  THEN [count |-> 0, resetTime |-> clock + opts.windowMs]
  ELSE store[ip]

(* The entry the request is counted in: the client's entry, or a fresh one *)
(* when the client has none or its window is over                          *)
windowEntry(opts, store, ip, clock) ==
  IF ip \notin DOMAIN store \/ clock > store[ip].resetTime
  THEN [count |-> 0, resetTime |-> clock + opts.windowMs]
  ELSE store[ip]

(* exceeded letting one request more through *)
exceeded_late(opts, entry) == entry.count > opts.maxRequests + 1

(* if (entry.count > opts.maxRequests) *)
exceeded(opts, entry) == entry.count > opts.maxRequests

(* The middleware function returned by createRateLimitMiddleware, applied  *)
(* to one request: the store after the call and what the call did to res   *)
(* and next.                                                               *)
rateLimit(opts, req, store, clock) ==
  IF skipped(opts, req)
  THEN [ store |-> store, next |-> TRUE, status |-> << >>,
         headers |-> Empty, body |-> << >> ]
  ELSE
    LET ip == clientIp(req)
        fresh == windowEntry(opts, store, ip, clock)
        entry == [fresh EXCEPT !.count = @ + 1]
        stored == [k \in (DOMAIN store) \cup {ip} |->
                     IF k = ip THEN entry ELSE store[k]]
        headers ==
          [ limit |-> opts.maxRequests,
            remaining |-> Max(0, opts.maxRequests - entry.count),
            reset |-> Ceil(entry.resetTime, 1000) ]
        retryAfter == Ceil(entry.resetTime - clock, 1000)
    IN IF exceeded(opts, entry)
       THEN [ store |-> stored,
              next |-> FALSE,
              status |-> <<429>>,
              headers |-> Merge(headers, [retryAfter |-> retryAfter]),
              body |-> << [ error |-> "Too Many Requests",
                            message |-> "Rate limit exceeded. Try again in "
                                        \o ToString(retryAfter)
                                        \o " seconds.",
                            retryAfter |-> retryAfter,
                            retryable |-> TRUE ] >> ]
       ELSE [ store |-> stored, next |-> TRUE, status |-> << >>,
              headers |-> headers, body |-> << >> ]

(* cleanup dropping an entry from the instant resetTime on *)
cleanup_eager(store, clock) ==
  [k \in {j \in DOMAIN store : ~(clock >= store[j].resetTime)} |-> store[k]]

(* The body of the cleanup timer: entries whose window is over are dropped *)
cleanup(store, clock) ==
  [k \in {j \in DOMAIN store : ~(clock > store[j].resetTime)} |-> store[k]]

(* createRateLimitMiddleware(options): the options in force *)
createRateLimitMiddleware(options) == Merge(DEFAULT_OPTIONS, options)

(* The exported default limiter *)
rateLimitMiddleware == createRateLimitMiddleware(Empty)

-----------------------------------------------------------------------------
(* HTTP middleware: the error handler *)

(* new AppError(message, statusCode, isRetryable, code); code is << >>     *)
(* when the argument is left out                                           *)
AppError(message, statusCode, isRetryable, code) ==
  [ class |-> "AppError",
    message |-> message,
    statusCode |-> statusCode,
    isRetryable |-> isRetryable,
    code |-> code ]

(* (code || dflt) for an optional string argument *)
CodeOr(code, dflt) == IF code = << >> \/ code = <<"">> THEN <<dflt>> ELSE code

(* (message = dflt) of a parameter list *)
MessageOr(message, dflt) == IF message = << >> THEN dflt ELSE message[1]

badRequest(message, code) ==
  AppError(message, 400, FALSE, CodeOr(code, "BAD_REQUEST"))

unauthorized(message) ==
  AppError(MessageOr(message, "Unauthorized"), 401, FALSE, <<"UNAUTHORIZED">>)

forbidden(message) ==
  AppError(MessageOr(message, "Forbidden"), 403, FALSE, <<"FORBIDDEN">>)

notFound(message) ==
  AppError(MessageOr(message, "Not Found"), 404, FALSE, <<"NOT_FOUND">>)

conflict(message, code) ==
  AppError(message, 409, FALSE, CodeOr(code, "CONFLICT"))

internal(message) ==
  AppError(MessageOr(message, "Internal Server Error"), 500, TRUE,
           <<"INTERNAL_ERROR">>)

serviceUnavailable(message) ==
  AppError(MessageOr(message, "Service Unavailable"), 503, TRUE,
           <<"SERVICE_UNAVAILABLE">>)

(* An Error that is not an AppError, with whatever further fields it has *)
PlainError(message, fields) ==
  Merge([class |-> "Error", message |-> message], fields)

(* errorHandlerMiddleware with the message of every error in the body *)
errorHandlerMiddleware_verbose(err, req, clock) ==
  LET requestId == StrOr(req, "requestId", "unknown")
  IN << [ status |-> IF err.class = "AppError" THEN err.statusCode ELSE 500,
          body |-> [ error |-> err.message,
                     code |-> IF err.class = "AppError" THEN err.code
                              ELSE <<"INTERNAL_ERROR">>,
                     retryable |-> IF err.class = "AppError"
                                   THEN err.isRetryable ELSE TRUE,
                     requestId |-> requestId,
                     timestamp |-> clock ] ] >>

(* errorHandlerMiddleware: the responses sent through res, in order *)
errorHandlerMiddleware(err, req, clock) ==
  LET requestId == StrOr(req, "requestId", "unknown")
      response == [ error |-> "",
                    code |-> << >>,
                    retryable |-> FALSE,
                    requestId |-> requestId,
                    timestamp |-> clock ]
  IN IF err.class = "AppError"
     THEN << [ status |-> err.statusCode,
               body |-> [response EXCEPT !.error = err.message,
                                         !.code = err.code,
                                         !.retryable = err.isRetryable] ] >>
     ELSE << [ status |-> 500,
               body |-> [response EXCEPT !.error = "Internal Server Error",
                                         !.code = <<"INTERNAL_ERROR">>,
                                         !.retryable = TRUE] ] >>

-----------------------------------------------------------------------------
(* HTTP requests and errors *)

(* The limiters of the process: the exported default and one created with  *)
(* options of its own                                                      *)
Limiters ==
  { rateLimitMiddleware,
    createRateLimitMiddleware([windowMs |-> 2 * TickMs, maxRequests |-> 2]) }

Requests ==
  { [path |-> <<"/api", "/attention">>, ip |-> "10.1.1.1"],
    [path |-> <<"/api", "/attention">>, remoteAddress |-> "10.1.1.1"],
    [path |-> <<"/api", "/attention">>],
    [path |-> <<"/health">>, ip |-> "10.1.1.1"],
    [path |-> <<"/health", "/ready">>, ip |-> "10.1.1.1"] }

ClientIps == {clientIp(req) : req \in Requests}

Errors ==
  { badRequest("window must be positive", << >>),
    badRequest("window must be positive", <<"INVALID_WINDOW">>),
    unauthorized(<< >>),
    forbidden(<<"read-only token">>),
    notFound(<< >>),
    conflict("pattern exists", << >>),
    internal(<< >>),
    internal(<<"SQLITE_BUSY: database is locked">>),
    serviceUnavailable(<< >>),
    AppError("teapot", 418, FALSE, << >>),
    AppError("no detail", 500, FALSE, << >>),
    PlainError("connect ECONNREFUSED 10.0.0.7:5432", Empty),
    PlainError("no such route", [statusCode |-> 404, code |-> <<"NOT_FOUND">>,
                                 isRetryable |-> FALSE]) }

(* A request as the error handler sees it: requestId is attached by        *)
(* requestIdMiddleware when that ran before                                *)
ErrorRequests ==
  { [path |-> <<"/api", "/attention">>],
    [path |-> <<"/api", "/attention">>, requestId |-> "req-1"],
    [path |-> <<"/api", "/patterns">>, requestId |-> "req-2"] }

-----------------------------------------------------------------------------
(* Behaviour *)

Init ==
  /\ attentionEvents = << >>
  /\ operations = << >>
  /\ now = StartTime
  /\ routed = 0
  /\ rejected = FALSE
  /\ lastCall = << >>
  /\ rateLimitStore = Empty
  /\ uncleanedStore = Empty
  /\ admitted = [ip \in ClientIps |-> [l \in Limiters |-> 0]]
  /\ cleanups = 0
  /\ served = 0
  /\ lastResponse = << >>

(* The listener hands one datagram to route; the invocation runs to its    *)
(* end (or to the call that throws) before anything else happens.          *)
Route ==
  /\ routed < MaxRoutes
  /\ \E d \in Datagrams, f \in Faults :
       LET r == Run(route(d.signal, d.rinfo, now),
                    [ attentionEvents |-> attentionEvents,
                      operations |-> operations,
                      aeCalls |-> 0,
                      effects |-> << >>,
                      raised |-> FALSE ],
                    f)
       IN /\ attentionEvents' = r.attentionEvents
          /\ operations' = r.operations
          /\ routed' = routed + 1
          /\ rejected' = (rejected \/ \E i \in 1..Len(r.effects) :
                            /\ r.effects[i].call = "insertAttentionEvent"
                            /\ r.effects[i].error # "none")
          /\ lastCall' = << [ signal |-> d.signal,
                              rinfo |-> d.rinfo,
                              clock |-> now,
                              effects |-> r.effects,
                              raised |-> r.raised ] >>
          /\ now' = now
  /\ UNCHANGED httpVars

(* Time passes *)
Tick ==
  /\ now < StartTime + MaxTicks * TickMs
  /\ now' = now + TickMs
  /\ UNCHANGED <<attentionEvents, operations, routed, rejected, lastCall>>
  /\ UNCHANGED httpVars

Next == Route \/ Tick

Spec == Init /\ [][Next]_vars

-----------------------------------------------------------------------------
(* The HTTP side *)

(* One request reaches a limiter.  admitted counts, per client and         *)
(* limiter, the requests handed to next() since the client's current       *)
(* window was opened.                                                      *)
Request ==
  /\ served < MaxRequests
  /\ \E opts \in Limiters, req \in Requests :
       LET r == rateLimit(opts, req, rateLimitStore, now)
           ip == clientIp(req)
           counted == ~skipped(opts, req)
           opened == counted
                     /\ windowEntry(opts, rateLimitStore, ip, now).count = 0
       IN /\ rateLimitStore' = r.store
          /\ uncleanedStore' = rateLimit(opts, req, uncleanedStore, now).store
          /\ admitted' =
               IF counted
               THEN [admitted EXCEPT ![ip] =
                      [l \in Limiters |->
                         (IF opened THEN 0 ELSE admitted[ip][l])
                         + (IF l = opts /\ r.next THEN 1 ELSE 0)]]
               ELSE admitted
          /\ lastResponse' =
               << [ kind |-> "rateLimit",
                    opts |-> opts,
                    req |-> req,
                    clock |-> now,
                    counted |-> counted,
                    before |-> IF counted /\ ip \in DOMAIN rateLimitStore
                               THEN <<rateLimitStore[ip]>> ELSE << >>,
                    after |-> IF counted THEN <<r.store[ip]>> ELSE << >>,
                    next |-> r.next,
                    status |-> r.status,
                    headers |-> r.headers,
                    body |-> r.body ] >>
          /\ served' = served + 1
  /\ UNCHANGED <<now, cleanups, routerVars>>

(* The cleanup timer fires.  Its period is the windowMs of the first       *)
(* limiter created, the exported default; a firing that finds nothing to   *)
(* drop changes nothing.                                                   *)
Cleanup ==
  /\ cleanups < MaxCleanups
  /\ cleanup(rateLimitStore, now) # rateLimitStore
  /\ rateLimitStore' = cleanup(rateLimitStore, now)
  /\ cleanups' = cleanups + 1
  /\ UNCHANGED <<now, uncleanedStore, admitted, served, lastResponse,
                 routerVars>>

(* Time passes on the HTTP side *)
Elapse ==
  /\ now < StartTime + MaxElapse * TickMs
  /\ now' = now + TickMs
  /\ UNCHANGED <<rateLimitStore, uncleanedStore, admitted, cleanups, served,
                 lastResponse, routerVars>>

(* A route handler passed an error on and express called the error handler *)
HandleError ==
  /\ served < MaxErrors
  /\ \E err \in Errors, req \in ErrorRequests :
       lastResponse' =
         << [ kind |-> "error",
              err |-> err,
              req |-> req,
              clock |-> now,
              sent |-> errorHandlerMiddleware(err, req, now) ] >>
  /\ served' = served + 1
  /\ UNCHANGED <<now, rateLimitStore, uncleanedStore, admitted, cleanups,
                 routerVars>>

NextRateLimit == Request \/ Cleanup \/ Elapse

SpecRateLimit == Init /\ [][NextRateLimit]_vars

NextErrors == HandleError \/ Elapse

SpecErrors == Init /\ [][NextErrors]_vars

-----------------------------------------------------------------------------
(* Reading the last invocation *)

Called == lastCall # << >>

Last == lastCall[1]

LastType == Last.signal.signalType

CallsTo(effects, name) == SelectSeq(effects, LAMBDA e : e.call = name)

Emitted(effects) ==
  LET em == CallsTo(effects, "emit")
  IN [i \in 1..Len(em) |-> em[i].event]

Derived(effects) ==
  LET ins == CallsTo(effects, "insertOperation")
  IN [i \in 1..Len(ins) |-> ins[i].arg]

StoreRejected(effects, name) ==
  \E i \in 1..Len(effects) :
    effects[i].call = name /\ effects[i].error # "none"

(* The notifications of each family, as section 4.1 of the design lists them *)
FamilyNotifications(signal) ==
  LET t == signal.signalType
      T == SignalTypes
  IN CASE t = T.HEARTBEAT -> <<"server_heartbeat">>
       [] t = T.DOCK_REQUEST -> << >>
       [] t \in {T.UNDOCK, T.SHUTDOWN} -> <<"server_shutdown">>
       [] t \in {T.FILE_DISCOVERED, T.FILE_INDEXED, T.FILE_MODIFIED,
                 T.FILE_DELETED} -> <<"file_event">>
       [] t \in {T.SEARCH_STARTED, T.SEARCH_COMPLETED, T.SEARCH_RESULT}
            -> <<"search_event">>
       [] t \in {T.BUILD_STARTED, T.BUILD_COMPLETED} -> <<"build_event">>
       [] t = T.BUILD_FAILED -> <<"lesson_learned", "build_event">>
       [] t \in {T.VERIFICATION_STARTED, T.VERIFICATION_RESULT,
                 T.CLAIM_EXTRACTED} -> <<"verification_event">>
       [] t = T.VALIDATION_APPROVED -> <<"validation_event">>
       [] t = T.VALIDATION_REJECTED
            -> <<"validation_event", "pattern_candidate">>
       [] t \in {T.HANDOFF_REQUEST, T.HANDOFF_APPROVED, T.HANDOFF_COMPLETED,
                 T.MODE_SWITCH} -> <<"coordination_event">>
       [] t = T.ASTROSENTRY_EVENT
            -> IF "outcome" \in DOMAIN signal.payload
                  /\ signal.payload.outcome = "failure"
               THEN <<"astrosentry_event", "pattern_candidate">>
               ELSE <<"astrosentry_event">>
       [] t = T.ERROR -> <<"error_received", "pattern_candidate">>
       [] OTHER -> <<"unknown_signal">>

-----------------------------------------------------------------------------
(* C1: route never raises: whatever the signal and whichever store calls   *)
(* fail during the invocation, route completes without propagating an      *)
(* error.                                                                  *)
C1_RouteNeverRaises == Called => ~Last.raised

(* C2: every route call invokes insertAttentionEvent exactly once with     *)
(* event_type = signal and target = the name of the signal's type, and     *)
(* that call comes before every emit, sendResponse, insertOperation and    *)
(* further insertAttentionEvent of the same route call.                    *)
C2_LoggedOnceFirst ==
  Called =>
    LET e == Last.effects
    IN /\ Len(e) >= 1
       /\ e[1].call = "insertAttentionEvent"
       /\ e[1].arg.event_type = "signal"
       /\ IF \E n \in DOMAIN SignalTypes : SignalTypes[n] = LastType
          THEN SignalTypes[e[1].arg.target] = LastType
          ELSE e[1].arg.target \notin DOMAIN SignalTypes
       /\ \A i \in 2..Len(e) :
            e[i].call = "insertAttentionEvent" => e[i].arg.event_type # "signal"

(* A handoff request went through: its two attention events (the second    *)
(* also targets the signal name) and its notification.                     *)
C2_Witness ==
  /\ Called
  /\ LastType = SignalTypes.HANDOFF_REQUEST
  /\ Len(Last.effects) = 3
  /\ Last.effects[2].call = "insertAttentionEvent"
  /\ Last.effects[2].arg.target = "HANDOFF_REQUEST"
  /\ Last.effects[3].call = "emit"

SignalEvents ==
  {i \in 1..Len(attentionEvents) : attentionEvents[i].event_type = "signal"}

(* C3 as stated: with a store that accepts every write, the number of      *)
(* AttentionEvents in the store equals the number of signals routed.       *)
C3_OneEventPerSignal == ~rejected => Len(attentionEvents) = routed

(* C3 as amended: with a store that accepts every write, the number of     *)
(* AttentionEvents of event_type signal equals the number of signals       *)
(* routed; the families that log a second event make the total larger, at  *)
(* most twice the number of signals routed.                                *)
C3_OneSignalEventPerSignal ==
  ~rejected =>
    /\ Cardinality(SignalEvents) = routed
    /\ Len(attentionEvents) >= routed
    /\ Len(attentionEvents) <= 2 * routed

(* Two signals routed into a healthy store, three events stored *)
C3_Witness ==
  /\ ~rejected
  /\ routed = 2
  /\ Len(attentionEvents) = 3
  /\ \E i \in 1..3 : attentionEvents[i].event_type = "file"

(* C4: a rejected insertAttentionEvent is isolated: the notifications of   *)
(* the signal's family are emitted as with a healthy store, and a          *)
(* dock-request still gets its reply.                                      *)
C4_LoggingFailureIsolated ==
  (Called /\ StoreRejected(Last.effects, "insertAttentionEvent")) =>
    /\ Emitted(Last.effects) = FamilyNotifications(Last.signal)
    /\ LastType = SignalTypes.DOCK_REQUEST =>
         Len(CallsTo(Last.effects, "sendResponse")) = 1

(* C5: a dock request is never refused: whatever the sender, the payload   *)
(* and the state of the store, route sends exactly one reply, to the       *)
(* sender's own address and port, of type DOCK_APPROVED, with approved =   *)
(* true, the observer's id as sender and the fixed capability list.        *)
C5_DockAlwaysApproved ==
  (Called /\ LastType = SignalTypes.DOCK_REQUEST) =>
    LET r == CallsTo(Last.effects, "sendResponse")
    IN /\ Len(r) = 1
       /\ r[1].host = Last.rinfo.address
       /\ r[1].port = Last.rinfo.port
       /\ r[1].arg.signalType = SignalTypes.DOCK_APPROVED
       /\ r[1].arg.payload.approved = TRUE
       /\ r[1].arg.payload.sender = "consciousness-mcp"
       /\ r[1].arg.payload.capabilities =
            <<"awareness", "pattern-detection", "reflection">>

(* A second peer docked while the store was rejecting the audit write *)
C5_Witness ==
  /\ Called
  /\ LastType = SignalTypes.DOCK_REQUEST
  /\ Last.signal.payload.sender = "verifier"
  /\ Last.rinfo.address = "10.0.0.9"
  /\ StoreRejected(Last.effects, "insertAttentionEvent")
  /\ Len(CallsTo(Last.effects, "sendResponse")) = 1

(* C6: duplicate operation ids are absorbed: no two stored Operation rows  *)
(* share an operation_id, and a route call whose insert hits an id already *)
(* stored (the same build-completed signal routed twice) does not raise    *)
(* and leaves one row for that id.                                         *)
C6_DuplicatesAbsorbed ==
  /\ \A i, j \in 1..Len(operations) :
       i # j => operations[i].operation_id # operations[j].operation_id
  /\ Called =>
       \A k \in 1..Len(Last.effects) :
         (/\ Last.effects[k].call = "insertOperation"
          /\ Last.effects[k].error = "DuplicateKeyError") =>
           /\ ~Last.raised
           /\ Cardinality({i \in 1..Len(operations) :
                 operations[i].operation_id
                   = Last.effects[k].arg.operation_id}) = 1

(* The same build-completed signal routed a second time: the row derived   *)
(* from it is already stored and the insert is refused as a duplicate.     *)
C6_Witness ==
  /\ Called
  /\ routed = 2
  /\ LastType = SignalTypes.BUILD_COMPLETED
  /\ "build_id" \in DOMAIN Last.signal.payload
  /\ Len(Last.effects) = 3
  /\ Last.effects[2].call = "insertOperation"
  /\ Last.effects[2].error = "DuplicateKeyError"
  /\ Len(operations) = 1
  /\ operations[1] = Last.effects[2].arg

(* C7: in each of the four deriving handlers a failing insertOperation,    *)
(* duplicate key or any other storage error, is not propagated, and the    *)
(* notifications that follow it are those emitted when the insert          *)
(* succeeds.                                                               *)
C7_InsertFailureSwallowed ==
  Called =>
    \A k \in 1..Len(Last.effects) :
      (/\ Last.effects[k].call = "insertOperation"
       /\ Last.effects[k].error # "none") =>
        /\ ~Last.raised
        /\ LastType \in { SignalTypes.SEARCH_COMPLETED,
                          SignalTypes.BUILD_COMPLETED,
                          SignalTypes.BUILD_FAILED,
                          SignalTypes.VERIFICATION_RESULT,
                          SignalTypes.ASTROSENTRY_EVENT }
        /\ Emitted(SubSeq(Last.effects, 1, k)) = << >>
        /\ Emitted(SubSeq(Last.effects, k + 1, Len(Last.effects)))
             = FamilyNotifications(Last.signal)

(* A search-completed signal whose insert the store refused with a storage *)
(* error, followed by its search_event                                     *)
C7_Witness ==
  /\ Called
  /\ LastType = SignalTypes.SEARCH_COMPLETED
  /\ \E k \in 1..Len(Last.effects) :
       /\ Last.effects[k].call = "insertOperation"
       /\ Last.effects[k].error = "StorageError"
  /\ Emitted(Last.effects) = <<"search_event">>

(* What C8 says of one route call *)
SearchDerivation ==
  LET data == Rest(Last.signal.payload)
      counted == "results_count" \in DOMAIN data
      d == Derived(Last.effects)
  IN /\ LastType = SignalTypes.SEARCH_COMPLETED =>
          /\ Len(d) = 1
          /\ d[1].operation_type = "search"
          /\ d[1].outcome = IF counted /\ data.results_count > 0
                            THEN "success" ELSE "partial"
          /\ d[1].quality_score =
               IF counted THEN Min(1000, data.results_count * 100) ELSE 0
     /\ LastType = SignalTypes.SEARCH_STARTED => d = << >>
     /\ LastType \in {SignalTypes.SEARCH_STARTED, SignalTypes.SEARCH_COMPLETED}
          => Emitted(Last.effects) = <<"search_event">>

(* C8: a search-completed signal derives an Operation of type search with  *)
(* outcome success if results_count > 0, partial otherwise (absent count   *)
(* included), and quality_score min(1, results_count / 10), 0 when absent; *)
(* search-started derives none; both emit one search_event.                *)
C8_SearchDerivation == Called => SearchDerivation

(* The same for the route calls that ran to their end *)
SearchDerivationOfCompletedCalls == (Called /\ ~Last.raised) => SearchDerivation

(* What C9 says of one route call *)
BuildDerivation ==
  LET d == Derived(Last.effects)
      em == CallsTo(Last.effects, "emit")
  IN /\ LastType = SignalTypes.BUILD_FAILED =>
          /\ Emitted(Last.effects) = <<"lesson_learned", "build_event">>
          /\ em[1].arg.type = "build_failure"
          /\ Len(d) = 1
          /\ d[1].operation_type = "build"
          /\ d[1].outcome = "failure"
          /\ d[1].quality_score = 200
     /\ LastType = SignalTypes.BUILD_COMPLETED =>
          /\ Emitted(Last.effects) = <<"build_event">>
          /\ Len(d) = 1
          /\ d[1].operation_type = "build"
          /\ d[1].outcome = "success"
          /\ d[1].quality_score = 900
     /\ LastType = SignalTypes.BUILD_STARTED =>
          /\ d = << >>
          /\ Emitted(Last.effects) = <<"build_event">>

(* C9: build-failed emits exactly one lesson_learned tagged build_failure  *)
(* and derives a build Operation with outcome failure and quality 0.2;     *)
(* build-completed emits no lesson_learned and derives one with outcome    *)
(* success and quality 0.9; build-started derives none; each of the three  *)
(* emits exactly one build_event.                                          *)
C9_BuildDerivation == Called => BuildDerivation

(* The same for the route calls that ran to their end *)
BuildDerivationOfCompletedCalls == (Called /\ ~Last.raised) => BuildDerivation

(* C10: a verification-result signal derives an Operation of type verify   *)
(* with outcome success for SUPPORTED, failure for CONTRADICTED, partial   *)
(* otherwise, and quality_score equal to the payload's confidence when it  *)
(* carries one (any value in [0,1], 0 included), 0.5 only when absent;     *)
(* verification-started and claim-extracted derive none; all three emit    *)
(* one verification_event.                                                 *)
C10_VerificationDerivation ==
  Called =>
    LET data == Rest(Last.signal.payload)
        d == Derived(Last.effects)
    IN /\ LastType = SignalTypes.VERIFICATION_RESULT =>
            /\ Len(d) = 1
            /\ d[1].operation_type = "verify"
            /\ d[1].outcome =
                 IF "verdict" \in DOMAIN data /\ data.verdict = "SUPPORTED"
                 THEN "success"
                 ELSE IF "verdict" \in DOMAIN data
                         /\ data.verdict = "CONTRADICTED"
                      THEN "failure"
                      ELSE "partial"
            /\ ("confidence" \notin DOMAIN data) => d[1].quality_score = 500
            /\ ("confidence" \in DOMAIN data
                /\ data.confidence >= 0 /\ data.confidence <= 1000)
                 => d[1].quality_score = data.confidence
       /\ LastType \in { SignalTypes.VERIFICATION_STARTED,
                         SignalTypes.CLAIM_EXTRACTED } => d = << >>
       /\ LastType \in { SignalTypes.VERIFICATION_STARTED,
                         SignalTypes.VERIFICATION_RESULT,
                         SignalTypes.CLAIM_EXTRACTED }
            => Emitted(Last.effects) = <<"verification_event">>

(* The same with a confidence of 0 set aside *)
VerificationDerivationOfNonZeroConfidence ==
  (Called /\ ~("confidence" \in DOMAIN Last.signal.payload
               /\ Last.signal.payload.confidence = 0))
    => C10_VerificationDerivation


-----------------------------------------------------------------------------
(* C11: every Operation record the router hands to the store, whatever the *)
(* payload values (any integer results_count, negative included; any       *)
(* numeric confidence), has outcome in {success, failure, partial} and a   *)
(* quality_score within [0, 1].                                            *)
C11_OperationsWellFormed ==
  Called =>
    \A i \in 1..Len(Derived(Last.effects)) :
      LET op == Derived(Last.effects)[i]
      IN /\ op.outcome \in {"success", "failure", "partial"}
         /\ op.quality_score >= 0
         /\ op.quality_score <= One

(* The outcome half of C11 alone holds of every derived Operation *)
OperationOutcomesClosed ==
  Called =>
    \A i \in 1..Len(Derived(Last.effects)) :
      Derived(Last.effects)[i].outcome \in {"success", "failure", "partial"}

-----------------------------------------------------------------------------
Recognized(t) == \E n \in DOMAIN SignalTypes : SignalTypes[n] = t

(* C12: a signal whose signalType is outside the enumerated types still    *)
(* has its AttentionEvent logged and raises exactly one unknown_signal     *)
(* notification carrying the raw numeric type; no Operation is derived, no *)
(* reply is sent, no other notification is raised and route does not       *)
(* throw.                                                                  *)
C12_UnknownSignalReported ==
  (Called /\ ~Recognized(LastType)) =>
    LET e == Last.effects
    IN /\ ~Last.raised
       /\ Len(e) = 2
       /\ e[1].call = "insertAttentionEvent"
       /\ e[1].arg.event_type = "signal"
       /\ e[1].arg.context.signal_type = LastType
       /\ (e[1].error = "none"
             => /\ attentionEvents # << >>
                /\ attentionEvents[Len(attentionEvents)] = e[1].arg)
       /\ e[2].call = "emit"
       /\ e[2].event = "unknown_signal"
       /\ e[2].arg.type = LastType
       /\ e[2].arg.server = Last.signal.payload.sender

(* An unrecognized type arrived after another signal and was stored *)
C12_Witness ==
  /\ Called
  /\ LastType = UnrecognizedType
  /\ routed = 2
  /\ Emitted(Last.effects) = <<"unknown_signal">>
  /\ Last.effects[1].error = "none"
  /\ Len(attentionEvents) >= 2

-----------------------------------------------------------------------------
(* The signals the design lets change the Operation store *)
DerivesOperation(signal) ==
  \/ signal.signalType \in {SignalTypes.SEARCH_COMPLETED,
                            SignalTypes.BUILD_COMPLETED,
                            SignalTypes.BUILD_FAILED,
                            SignalTypes.VERIFICATION_RESULT}
  \/ /\ signal.signalType = SignalTypes.ASTROSENTRY_EVENT
     /\ "outcome" \in DOMAIN signal.payload

(* C13: a route call changes the Operation store only when the signal is   *)
(* search-completed, build-completed, build-failed, verification-result,   *)
(* or an astrosentry-event carrying an outcome; a signal of every other    *)
(* type, astrosentry-event without outcome and unrecognized types          *)
(* included, leaves the Operation store unchanged.                         *)
C13_OperationStoreFrame ==
  [][ operations' # operations
        => /\ routed' = routed + 1
           /\ DerivesOperation(lastCall'[1].signal) ]_vars

(* An Operation is on record and a signal of another kind has just been    *)
(* routed past it.                                                         *)
C13_Witness ==
  /\ Called
  /\ routed = 2
  /\ ~DerivesOperation(Last.signal)
  /\ ~Last.raised
  /\ Len(operations) = 1

-----------------------------------------------------------------------------
(* The outcome of an astrosentry event, << >> when the payload names none  *)
(* (an empty string counts as none)                                        *)
AstroOutcome(signal) ==
  IF "outcome" \in DOMAIN signal.payload /\ signal.payload.outcome # ""
  THEN <<signal.payload.outcome>>
  ELSE << >>

(* The consequent of C14, for one astrosentry invocation *)
AstrosentryDerivation ==
  LET e == Last.effects
      p == Last.signal.payload
      o == AstroOutcome(Last.signal)
      second == CallsTo(SubSeq(e, 2, Len(e)), "insertAttentionEvent")
      ops == Derived(e)
      notes == CallsTo(e, "emit")
  IN /\ Len(second) = 1
     /\ second[1].arg.event_type = "operation"
     /\ second[1].arg.target = p.eventType \o ":" \o p.operation
     /\ Len(SelectSeq(notes, LAMBDA n : n.event = "astrosentry_event")) = 1
     /\ (o = << >>) <=> (ops = << >>)
     /\ o # << >> =>
          /\ Len(ops) = 1
          /\ ops[1].outcome = (IF o[1] \in {"success", "failure"}
                               THEN o[1] ELSE "partial")
          /\ ops[1].quality_score = (IF o[1] = "success" THEN One
                                     ELSE IF o[1] = "failure" THEN 0
                                     ELSE One \div 2)
     /\ (o = <<"failure">>)
          <=> \E i \in 1..Len(notes) :
                /\ notes[i].event = "pattern_candidate"
                /\ notes[i].arg.type = "astrosentry_failure"

(* C14: an astrosentry-event signal logs a second AttentionEvent of        *)
(* event_type operation with target eventType:operation and emits one      *)
(* astrosentry_event; it derives an Operation if and only if an outcome    *)
(* string is present, with outcome success, failure, or partial for any    *)
(* other string, and quality 1.0, 0.0, 0.5 respectively; a                 *)
(* pattern_candidate tagged astrosentry_failure is emitted if and only if  *)
(* the outcome is failure.                                                 *)
C14_AstrosentryDerivation ==
  (Called /\ LastType = SignalTypes.ASTROSENTRY_EVENT) => AstrosentryDerivation

(* The same derivation over the invocations that ran to their end *)
AstrosentryDerivationOfCompletedCalls ==
  (Called /\ LastType = SignalTypes.ASTROSENTRY_EVENT /\ ~Last.raised)
    => AstrosentryDerivation

-----------------------------------------------------------------------------
(* The notification names of the design *)
NotificationNames ==
  { "server_heartbeat", "server_shutdown", "file_event", "search_event",
    "build_event", "lesson_learned", "verification_event",
    "validation_event", "pattern_candidate", "coordination_event",
    "astrosentry_event", "error_received", "unknown_signal" }

(* C15: every emit of the router uses one of the thirteen notification     *)
(* names, and each signal type emits only the names assigned to its        *)
(* family: heartbeat only server_heartbeat, validation-rejected only       *)
(* validation_event and pattern_candidate, error only error_received and   *)
(* pattern_candidate, dock-request none.                                   *)
C15_NotificationVocabulary ==
  Called =>
    LET names == Emitted(Last.effects)
        family == FamilyNotifications(Last.signal)
    IN /\ \A i \in 1..Len(names) :
            /\ names[i] \in NotificationNames
            /\ \E j \in 1..Len(family) : family[j] = names[i]
       /\ Len(names) <= Len(family)
       /\ (LastType = SignalTypes.DOCK_REQUEST => names = << >>)

(* A rejected validation raised its two notifications *)
C15_Witness ==
  /\ Called
  /\ LastType = SignalTypes.VALIDATION_REJECTED
  /\ Emitted(Last.effects) = <<"validation_event", "pattern_candidate">>

-----------------------------------------------------------------------------
(* The instants the clock can show *)
Instants == {StartTime + k * TickMs : k \in 0..MaxTicks}

(* The Operation route derives from a signal delivered at a clock instant *)
OperationOf(signal, clock) ==
  LET t == signal.signalType
      T == SignalTypes
  IN CASE t = T.SEARCH_COMPLETED -> searchOperation(signal, clock)
       [] t \in {T.BUILD_COMPLETED, T.BUILD_FAILED}
            -> buildOperation(signal, clock)
       [] t = T.VERIFICATION_RESULT -> verifyOperation(signal, clock)
       [] t = T.ASTROSENTRY_EVENT -> astrosentryOperation(signal, clock)

(* The signal is summarised as an Operation *)
Completion(signal) ==
  /\ DerivesOperation(signal)
  /\ signal.signalType = SignalTypes.ASTROSENTRY_EVENT
       => AstroOutcome(signal) # << >>

(* The payload names the operation: search_id, build_id or server_name,    *)
(* verification_id                                                         *)
HasPayloadId(signal) ==
  LET t == signal.signalType
      T == SignalTypes
      p == signal.payload
  IN \/ t = T.SEARCH_COMPLETED /\ "search_id" \in DOMAIN p
     \/ /\ t \in {T.BUILD_COMPLETED, T.BUILD_FAILED}
        /\ ("build_id" \in DOMAIN p \/ "server_name" \in DOMAIN p)
     \/ t = T.VERIFICATION_RESULT /\ "verification_id" \in DOMAIN p

(* This step routes a signal whose Operation, as derived at an earlier     *)
(* instant, is on record                                                   *)
Redelivery ==
  /\ routed' = routed + 1
  /\ Completion(lastCall'[1].signal)
  /\ \E c \in Instants :
       /\ c < now
       /\ \E i \in 1..Len(operations) :
            operations[i] = OperationOf(lastCall'[1].signal, c)

(* The redelivered signal derives an id on record and adds no row *)
AbsorbedAsDuplicate ==
  /\ operations' = operations
  /\ \A j \in 1..Len(Derived(lastCall'[1].effects)) :
       \E i \in 1..Len(operations) :
         operations[i].operation_id
           = Derived(lastCall'[1].effects)[j].operation_id

(* C16 as stated: when the same Operation-deriving signal, with or without *)
(* a payload-supplied id, is delivered a second time at a later clock      *)
(* instant, the operation_id derived is the one of the first delivery and  *)
(* the Operation store holds the same rows as after the first delivery.    *)
C16_RedeliveryIsNoOp == [][ Redelivery => AbsorbedAsDuplicate ]_vars

(* C16 as amended: the same holds of the signals whose payload supplies    *)
(* the id (search_id; build_id or server_name; verification_id).           *)
C16_RedeliveryWithIdIsNoOp ==
  [][ (Redelivery /\ HasPayloadId(lastCall'[1].signal))
        => AbsorbedAsDuplicate ]_vars

(* After the clock moved on, a build signal naming its build was refused   *)
(* as a duplicate of the row on record.                                    *)
C16_Witness ==
  /\ Called
  /\ routed = 2
  /\ Last.clock > StartTime
  /\ LastType = SignalTypes.BUILD_COMPLETED
  /\ "build_id" \in DOMAIN Last.signal.payload
  /\ Len(operations) = 1
  /\ operations[1] = OperationOf(Last.signal, StartTime)
  /\ \E i \in 1..Len(Last.effects) :
       /\ Last.effects[i].call = "insertOperation"
       /\ Last.effects[i].error = "DuplicateKeyError"

-----------------------------------------------------------------------------
(* The writes the store refused for its own reasons during an invocation,  *)
(* read off the invocation's record                                        *)
FaultsOf(effects) ==
  LET ae == CallsTo(effects, "insertAttentionEvent")
  IN [ ae |-> {k \in 1..Len(ae) : ae[k].error # "none"},
       op |-> \E i \in 1..Len(effects) :
                /\ effects[i].call = "insertOperation"
                /\ effects[i].error = "StorageError" ]

(* The invocation run alone: on an empty store, the store refusing the     *)
(* same writes                                                             *)
Alone(c) ==
  Run(route(c.signal, c.rinfo, c.clock),
      [ attentionEvents |-> << >>,
        operations |-> << >>,
        aeCalls |-> 0,
        effects |-> << >>,
        raised |-> FALSE ],
      FaultsOf(c.effects))

(* C17: route invocations are independent under interleaving: whatever     *)
(* invocations ran before it, an invocation appends the same               *)
(* AttentionEvents, emits the same notifications and sends the same reply  *)
(* as when it runs alone; the only effect that depends on the order of     *)
(* arrival is which of several Operation inserts with the same             *)
(* operation_id is kept.                                                   *)
C17_InvocationsIndependent ==
  [][ routed' = routed + 1 =>
        LET c == lastCall'[1]
            alone == Alone(c)
        IN /\ attentionEvents' = attentionEvents \o alone.attentionEvents
           /\ CallsTo(c.effects, "emit") = CallsTo(alone.effects, "emit")
           /\ CallsTo(c.effects, "sendResponse")
                = CallsTo(alone.effects, "sendResponse")
           /\ Derived(c.effects) = Derived(alone.effects)
           /\ c.raised = alone.raised
           /\ operations'
                = operations
                  \o SelectSeq(alone.operations,
                       LAMBDA op : \A i \in 1..Len(operations) :
                         operations[i].operation_id # op.operation_id) ]_vars

(* A failed build arrived after the completed build of the same id: the    *)
(* earlier row is kept and the later invocation raised its notifications.  *)
C17_Witness ==
  /\ Called
  /\ routed = 2
  /\ LastType = SignalTypes.BUILD_FAILED
  /\ Len(operations) = 1
  /\ operations[1].outcome = "success"
  /\ Derived(Last.effects) # << >>
  /\ Derived(Last.effects)[1].operation_id = operations[1].operation_id
  /\ Emitted(Last.effects) = <<"lesson_learned", "build_event">>
  /\ Len(attentionEvents) = 2

-----------------------------------------------------------------------------
(* Reading the last HTTP exchange *)

Answered == lastResponse # << >>

Response == lastResponse[1]

(* The last request was counted by a limiter *)
Limited == Answered /\ Response.kind = "rateLimit" /\ Response.counted

(* The count of the client's window after the last request *)
Count == Response.after[1].count

(* C18: for any client IP and any single window, at most maxRequests of    *)
(* its requests to non-skipped paths are passed to next(); every further   *)
(* request in that window is answered with status 429 and a Retry-After    *)
(* header and is not passed to next(); X-RateLimit-Remaining on every      *)
(* response equals max(0, maxRequests - count) and is never negative.      *)
C18_RateLimitCap ==
  /\ \A ip \in ClientIps, l \in Limiters : admitted[ip][l] <= l.maxRequests
  /\ Limited =>
       /\ Response.headers.limit = Response.opts.maxRequests
       /\ Response.headers.remaining
            = Max(0, Response.opts.maxRequests - Count)
       /\ Response.headers.remaining >= 0
       /\ IF Count > Response.opts.maxRequests
          THEN /\ ~Response.next
               /\ Response.status = <<429>>
               /\ "retryAfter" \in DOMAIN Response.headers
               /\ Response.headers.retryAfter >= 0
          ELSE /\ Response.next
               /\ Response.status = << >>
               /\ "retryAfter" \notin DOMAIN Response.headers

(* A client used up a limiter's allowance and its next request was refused *)
C18_Witness ==
  /\ Limited
  /\ Response.status = <<429>>
  /\ Response.headers.remaining = 0
  /\ admitted[clientIp(Response.req)][Response.opts]
       = Response.opts.maxRequests

-----------------------------------------------------------------------------
(* The last exchange went through the error handler *)
Failed == Answered /\ Response.kind = "error"

(* C19: for every error reaching errorHandlerMiddleware, if it is an       *)
(* AppError the response carries its statusCode, message, code and         *)
(* retryable flag; otherwise the response is status 500 with error         *)
(* 'Internal Server Error', code INTERNAL_ERROR and retryable true, never  *)
(* the original error's message; in both cases exactly one response is     *)
(* sent and it carries the request's requestId, 'unknown' when none was    *)
(* attached.                                                               *)
C19_ErrorResponse ==
  Failed =>
    LET err == Response.err
        sent == Response.sent
    IN /\ Len(sent) = 1
       /\ sent[1].body.requestId
            = (IF "requestId" \in DOMAIN Response.req
               THEN Response.req.requestId ELSE "unknown")
       /\ IF err.class = "AppError"
          THEN /\ sent[1].status = err.statusCode
               /\ sent[1].body.error = err.message
               /\ sent[1].body.code = err.code
               /\ sent[1].body.retryable = err.isRetryable
          ELSE /\ sent[1].status = 500
               /\ sent[1].body.error = "Internal Server Error"
               /\ sent[1].body.error # err.message
               /\ sent[1].body.code = <<"INTERNAL_ERROR">>
               /\ sent[1].body.retryable = TRUE

(* An error that is no AppError, carrying a status of its own, was         *)
(* answered for a request without requestId                                *)
C19_Witness ==
  /\ Failed
  /\ Response.err.class = "Error"
  /\ "statusCode" \in DOMAIN Response.err
  /\ "requestId" \notin DOMAIN Response.req
  /\ Response.sent[1].status = 500
  /\ Response.sent[1].body.requestId = "unknown"

-----------------------------------------------------------------------------
(* The last request came after the end of the window it found *)
WindowOver ==
  Response.before = << >> \/ Response.clock > Response.before[1].resetTime

(* C20: a request from an IP arriving strictly after its entry's resetTime *)
(* starts a new window (count becomes 1, resetTime = now + windowMs) and   *)
(* is passed to next() whatever the previous count was; requests inside a  *)
(* window, allowed or denied, never move resetTime, so a client that was   *)
(* answered 429 is admitted again once the window has elapsed even if it   *)
(* kept sending requests throughout.                                       *)
C20_FixedWindowReset ==
  Limited =>
    IF WindowOver
    THEN /\ Response.after[1]
              = [ count |-> 1,
                  resetTime |-> Response.clock + Response.opts.windowMs ]
         /\ Response.next
    ELSE /\ Response.after[1].resetTime = Response.before[1].resetTime
         /\ Response.after[1].count = Response.before[1].count + 1

(* A client that kept sending after its first 429 is admitted once the     *)
(* window is over                                                          *)
C20_Witness ==
  /\ Limited
  /\ Response.before # << >>
  /\ Response.before[1].count >= Response.opts.maxRequests + 2
  /\ Response.clock > Response.before[1].resetTime
  /\ Response.next
  /\ Count = 1

-----------------------------------------------------------------------------
(* C21: first writer wins on the Operation log: a stored Operation row is  *)
(* never modified or removed by a later route call; when two terminal      *)
(* signals resolve to the same operation_id with different content, the    *)
(* stored outcome and quality_score stay those of the first delivered      *)
(* signal.                                                                 *)
C21_FirstWriterWins ==
  [][ /\ Len(operations') >= Len(operations)
      /\ SubSeq(operations', 1, Len(operations)) = operations
      /\ routed' = routed + 1 =>
           \A j \in 1..Len(Derived(lastCall'[1].effects)) :
             \A i \in 1..Len(operations) :
               operations[i].operation_id
                 = Derived(lastCall'[1].effects)[j].operation_id
               => /\ operations' = operations
                  /\ operations'[i].outcome = operations[i].outcome
                  /\ operations'[i].quality_score
                       = operations[i].quality_score ]_vars

(* The completed build arrived after the failed build of the same build_id *)
(* and the row of the failure is the one on record                         *)
C21_Witness ==
  /\ Called
  /\ routed = 2
  /\ LastType = SignalTypes.BUILD_COMPLETED
  /\ "build_id" \in DOMAIN Last.signal.payload
  /\ Derived(Last.effects) # << >>
  /\ Derived(Last.effects)[1].outcome = "success"
  /\ Len(operations) = 1
  /\ operations[1].operation_id = Derived(Last.effects)[1].operation_id
  /\ operations[1].outcome = "failure"
  /\ operations[1].quality_score = (2 * One) \div 10

-----------------------------------------------------------------------------
(* This step is a request counted or skipped by a limiter *)
RequestStep == served' = served + 1 /\ lastResponse'[1].kind = "rateLimit"

(* C22: the periodic cleanup is invisible to clients: for every sequence   *)
(* of requests and cleanup firings the allow/deny decision and the         *)
(* rate-limit headers of each request are identical to those of a limiter  *)
(* that never runs cleanup, and cleanup never removes the entry of a       *)
(* window that is still open.                                              *)
C22_CleanupInvisible ==
  [][ /\ RequestStep =>
           LET r == lastResponse'[1]
               u == rateLimit(r.opts, r.req, uncleanedStore, now)
           IN /\ r.next = u.next
              /\ r.status = u.status
              /\ r.headers = u.headers
              /\ r.body = u.body
      /\ \A ip \in DOMAIN rateLimitStore :
           ip \notin DOMAIN rateLimitStore'
             => /\ cleanups' = cleanups + 1
                /\ now > rateLimitStore[ip].resetTime ]_vars

(* The only client there has been, whose entry the timer dropped, came     *)
(* back and was counted in a new window, as it is in the uncleaned Map     *)
C22_Witness ==
  /\ Limited
  /\ cleanups = 1
  /\ Response.before = << >>
  /\ Response.next
  /\ Count = 1
  /\ DOMAIN uncleanedStore = {clientIp(Response.req)}
  /\ uncleanedStore[clientIp(Response.req)] = Response.after[1]
  /\ Response.clock > StartTime + 2 * TickMs

-----------------------------------------------------------------------------
(* C23: all limiter instances share one counter per IP: every middleware   *)
(* returned by createRateLimitMiddleware, the default rateLimitMiddleware  *)
(* included, reads and increments the same entry for an IP, so a request   *)
(* counted by one instance reduces the allowance that any other instance,  *)
(* even one with different maxRequests or windowMs, sees for that IP in    *)
(* the current window; counts of different IPs never affect each other.    *)
C23_SharedCounterPerIp ==
  [][ (RequestStep /\ lastResponse'[1].counted) =>
        LET r == lastResponse'[1]
            ip == clientIp(r.req)
        IN /\ (ip \in DOMAIN rateLimitStore
                 /\ ~(now > rateLimitStore[ip].resetTime))
                => /\ rateLimitStore'[ip].count
                        = rateLimitStore[ip].count + 1
                   /\ rateLimitStore'[ip].resetTime
                        = rateLimitStore[ip].resetTime
           /\ \A l \in Limiters :
                LET seen == rateLimit(l, r.req, rateLimitStore', now)
                IN /\ seen.store[ip].count = rateLimitStore'[ip].count + 1
                   /\ seen.headers.remaining
                        = Max(0, l.maxRequests
                                   - (rateLimitStore'[ip].count + 1))
                   /\ seen.next
                        <=> rateLimitStore'[ip].count + 1 <= l.maxRequests
           /\ DOMAIN rateLimitStore' = DOMAIN rateLimitStore \cup {ip}
           /\ \A k \in DOMAIN rateLimitStore :
                k # ip => rateLimitStore'[k] = rateLimitStore[k] ]_vars

(* A limiter refused a client to which it had itself admitted no request   *)
(* in this window: the window was opened and filled through the other      *)
(* limiter, whose limit and window differ; another client has an entry of  *)
(* its own.                                                                *)
C23_Witness ==
  /\ Limited
  /\ Response.status = <<429>>
  /\ admitted[clientIp(Response.req)][Response.opts] = 0
  /\ \E l \in Limiters :
       /\ l # Response.opts
       /\ l.maxRequests # Response.opts.maxRequests
       /\ l.windowMs # Response.opts.windowMs
       /\ admitted[clientIp(Response.req)][l] = Count - 1
       /\ Response.after[1].resetTime <= Response.clock + l.windowMs
       /\ Response.after[1].resetTime > Response.clock + Response.opts.windowMs
  /\ \E k \in DOMAIN rateLimitStore :
       k # clientIp(Response.req) /\ rateLimitStore[k].count = 1

=============================================================================
